---- MODULE Spec2Model ----
(***************************************************************************)
(* A model of src/src/interpreter.ts: the interpreter state                *)
(* (createInterpreterState, setFunction) and the evaluator (evaluate and   *)
(* the per-node evaluation functions of its closure).                      *)
(*                                                                         *)
(* JavaScript objects are heap cells named by an address, so that sharing  *)
(* and in-place mutation are expressible: an InterpreterState is a pair of *)
(* addresses, a context object and a function-table object.                *)
(*                                                                         *)
(* Numbers are the integers, the two zeros, the two infinities and NaN.    *)
(* A quotient or a numeric string whose value is not an integer has no     *)
(* value in this domain: the operators that would produce one are partial  *)
(* there (a CASE with no branch for it), so that reaching one stops the    *)
(* evaluation of the model instead of yielding a value the program does    *)
(* not compute.  The same holds for the other places marked partial.       *)
(***************************************************************************)
EXTENDS Integers, Sequences, FiniteSets, TLC

(***************************************************************************)
(* Runtime values (the `unknown` of the source).                           *)
(***************************************************************************)
Num(n) == [t |-> "number", n |-> n]
NaN == [t |-> "number", nan |-> TRUE]
NegZero == [t |-> "number", negzero |-> TRUE]
SignedInfinity(sign) == [t |-> "number", inf |-> sign]
Infinity == SignedInfinity(1)
Str(s) == [t |-> "string", s |-> s]
Bool(b) == [t |-> "boolean", b |-> b]
Null == [t |-> "null"]
Undefined == [t |-> "undefined"]
\* a function: the name of its implementation
Fn(f) == [t |-> "function", f |-> f]

IsNaN(v) == v.t = "number" /\ "nan" \in DOMAIN v
IsInt(v) == v.t = "number" /\ "n" \in DOMAIN v
IsNegZero(v) == v.t = "number" /\ "negzero" \in DOMAIN v
IsInf(v) == v.t = "number" /\ "inf" \in DOMAIN v
IsZero(v) == IsNegZero(v) \/ (IsInt(v) /\ v.n = 0)

\* an object literal { k1: v1, ... } as a map from property names to values
EmptyObject == [k \in {} |-> Undefined]
Keys(o) == DOMAIN o
\* { ...a, ...b }: the own properties of a, then those of b over them
SpreadMerge(a, b) ==
    [k \in Keys(a) \cup Keys(b) |-> IF k \in Keys(b) THEN b[k] ELSE a[k]]

\* a plain object: its identity and its own enumerable properties
Obj(id, props) == [t |-> "object", id |-> id, props |-> props]
\* the object Object(v) makes of a primitive v
Wrapper(id, prim) ==
    [t |-> "object", id |-> id, props |-> EmptyObject, prim |-> prim]
\* the prototype of the values of type t; that of the functions is a function
PrototypeObject(t) ==
    IF t = "function" THEN Fn("Function.prototype")
    ELSE [t |-> "object", id |-> 0, props |-> EmptyObject, prototypeOf |-> t]

IsWrapper(v) == v.t = "object" /\ "prim" \in DOMAIN v
IsPrototypeObject(v) == v.t = "object" /\ "prototypeOf" \in DOMAIN v

(***************************************************************************)
(* Host arithmetic on numbers.                                             *)
(***************************************************************************)
Abs(n) == IF n < 0 THEN -n ELSE n

\* the sign of a number other than NaN; a zero has one too
Sign(v) ==
    IF IsInf(v) THEN v.inf
    ELSE IF IsNegZero(v) THEN -1
    ELSE IF v.n < 0 THEN -1 ELSE 1
\* the absolute value of a finite number
Magnitude(v) == IF IsNegZero(v) THEN 0 ELSE Abs(v.n)
\* the finite number with this sign and absolute value
Signed(sign, magnitude) ==
    IF magnitude = 0 THEN (IF sign < 0 THEN NegZero ELSE Num(0))
    ELSE Num(sign * magnitude)

\* -v
Negate(v) ==
    IF IsNaN(v) THEN NaN
    ELSE IF IsInf(v) THEN SignedInfinity(-v.inf)
    ELSE Signed(-Sign(v), Magnitude(v))

\* l + r: a zero sum is -0 only when both operands are -0
NumAdd(l, r) ==
    IF IsNaN(l) \/ IsNaN(r) THEN NaN
    ELSE IF IsInf(l) /\ IsInf(r) THEN (IF l.inf = r.inf THEN l ELSE NaN)
    ELSE IF IsInf(l) THEN l
    ELSE IF IsInf(r) THEN r
    ELSE LET sum == Sign(l) * Magnitude(l) + Sign(r) * Magnitude(r)
         IN IF sum # 0 THEN Num(sum)
            ELSE IF IsNegZero(l) /\ IsNegZero(r) THEN NegZero ELSE Num(0)

\* l - r
NumSub(l, r) == NumAdd(l, Negate(r))

\* l * r
NumMul(l, r) ==
    IF IsNaN(l) \/ IsNaN(r) THEN NaN
    ELSE IF IsInf(l) \/ IsInf(r)
    THEN (IF IsZero(l) \/ IsZero(r) THEN NaN
          ELSE SignedInfinity(Sign(l) * Sign(r)))
    ELSE Signed(Sign(l) * Sign(r), Magnitude(l) * Magnitude(r))

\* l / r; partial: no value when the quotient is not an integer
NumDiv(l, r) ==
    IF IsNaN(l) \/ IsNaN(r) THEN NaN
    ELSE IF IsInf(l)
    THEN (IF IsInf(r) THEN NaN ELSE SignedInfinity(Sign(l) * Sign(r)))
    ELSE IF IsInf(r) THEN Signed(Sign(l) * Sign(r), 0)
    ELSE IF IsZero(r)
    THEN (IF IsZero(l) THEN NaN ELSE SignedInfinity(Sign(l) * Sign(r)))
    ELSE CASE Magnitude(l) % Magnitude(r) = 0 ->
                 Signed(Sign(l) * Sign(r), Magnitude(l) \div Magnitude(r))

\* l % r: the remainder takes the sign of the dividend
NumRem(l, r) ==
    IF IsNaN(l) \/ IsNaN(r) \/ IsInf(l) \/ IsZero(r) THEN NaN
    ELSE IF IsInf(r) THEN l
    ELSE Signed(Sign(l), Magnitude(l) % Magnitude(r))

\* l < r on numbers; false when either is NaN
NumLess(l, r) ==
    IF IsNaN(l) \/ IsNaN(r) THEN FALSE
    ELSE IF IsInf(l) THEN l.inf = -1 /\ ~(IsInf(r) /\ r.inf = -1)
    ELSE IF IsInf(r) THEN r.inf = 1
    ELSE Sign(l) * Magnitude(l) < Sign(r) * Magnitude(r)

\* l <= r on numbers; false when either is NaN
NumLessOrEqual(l, r) == ~IsNaN(l) /\ ~IsNaN(r) /\ ~NumLess(r, l)

(***************************************************************************)
(* Conversions of the language the evaluator is written in.                *)
(***************************************************************************)
DigitChars == <<"0", "1", "2", "3", "4", "5", "6", "7", "8", "9">>

RECURSIVE NatToString(_)
NatToString(n) ==
    IF n < 10 THEN DigitChars[n + 1]
    ELSE NatToString(n \div 10) \o DigitChars[(n % 10) + 1]

\* the part of a dotted name after its last dot
RECURSIVE LastSegment(_, _)
LastSegment(s, acc) ==
    IF s = "" THEN acc
    ELSE IF Head(s) = "." THEN LastSegment(Tail(s), "")
    ELSE LastSegment(Tail(s), acc \o Head(s))

\* f.name: a host function is named after its implementation, a native
\* after its property; the prototype of the functions has the empty name
FunctionName(f) == IF f = "Function.prototype" THEN "" ELSE LastSegment(f, "")

\* the source text String(f) yields for a function
FunctionSource(f) ==
    CASE f = "sum" -> "(a, b) => a + b"
      [] f = "count" -> "() => 1"
      [] f = "second" -> "(a, b) => b"
      [] f = "boom" -> "() => { throw new Error(\"boom\"); }"
      [] f = "reject" -> "() => { throw new ExpressionError(\"rejected\"); }"
      [] OTHER -> "function " \o FunctionName(f) \o "() { [native code] }"

\* the string of a primitive value
PrimitiveToString(p) ==
    CASE p.t = "string" -> p.s
      [] p.t = "number" ->
            IF IsNaN(p) THEN "NaN"
            ELSE IF IsInf(p) THEN (IF p.inf < 0 THEN "-Infinity" ELSE "Infinity")
            ELSE IF IsNegZero(p) THEN "0"
            ELSE IF p.n < 0 THEN "-" \o NatToString(-p.n)
            ELSE NatToString(p.n)
      [] p.t = "boolean" -> IF p.b THEN "true" ELSE "false"
      [] p.t = "null" -> "null"
      [] p.t = "undefined" -> "undefined"

\* the truthiness test of `!v`, `v ? a : b`, `a && b`, `a || b`, `if (!v)`
Truthy(v) ==
    CASE v.t = "boolean" -> v.b
      [] v.t = "number" -> ~IsNaN(v) /\ ~IsZero(v)
      [] v.t = "string" -> v.s # ""
      [] v.t = "null" -> FALSE
      [] v.t = "undefined" -> FALSE
      [] OTHER -> TRUE

DigitValue(c) == CHOOSE d \in 0..9 : DigitChars[d + 1] = c
IsDigit(c) == \E d \in 0..9 : DigitChars[d + 1] = c

RECURSIVE AllDigits(_)
AllDigits(s) == s = "" \/ (IsDigit(Head(s)) /\ AllDigits(Tail(s)))

RECURSIVE DigitsValue(_, _)
DigitsValue(s, acc) ==
    IF s = "" THEN acc ELSE DigitsValue(Tail(s), 10 * acc + DigitValue(Head(s)))

\* the longest prefix of s made of decimal digits
RECURSIVE DigitPrefix(_)
DigitPrefix(s) ==
    IF s = "" THEN ""
    ELSE IF IsDigit(Head(s)) THEN Head(s) \o DigitPrefix(Tail(s))
    ELSE ""

Drop(s, n) == SubSeq(s, n + 1, Len(s))

\* the characters a string of the model is made of, by ascending code unit:
\* TAB, LF, VT, FF, CR and the printable ASCII characters but the grave
\* accent.  The conversions that read a string character by character are
\* partial: a string with another character has no value there
CodeUnitOrder ==
    <<"\t", "\n", "", "\f", "\r", " ", "!", "\"", "#", "$", "%", "&", "'", "(",
      ")", "*", "+", ",", "-", ".", "/", "0", "1", "2", "3", "4", "5", "6",
      "7", "8", "9", ":", ";", "<", "=", ">", "?", "@", "A", "B", "C", "D",
      "E", "F", "G", "H", "I", "J", "K", "L", "M", "N", "O", "P", "Q", "R",
      "S", "T", "U", "V", "W", "X", "Y", "Z", "[", "\\", "]", "^", "_",
      "a", "b", "c", "d", "e", "f", "g", "h", "i", "j", "k", "l", "m",
      "n", "o", "p", "q", "r", "s", "t", "u", "v", "w", "x", "y", "z", "{",
      "|", "}", "~">>
Alphabet == {CodeUnitOrder[i] : i \in 1..Len(CodeUnitOrder)}

RECURSIVE InAlphabet(_)
InAlphabet(s) == s = "" \/ (Head(s) \in Alphabet /\ InAlphabet(Tail(s)))

\* the white space Number(s) strips, of the characters above: TAB, LF, VT
\* (U+000B), FF, CR and SP
WhiteSpace == {"\t", "\n", "", "\f", "\r", " "}

RECURSIVE TrimStart(_)
TrimStart(s) ==
    IF s # "" /\ Head(s) \in WhiteSpace THEN TrimStart(Tail(s)) ELSE s

RECURSIVE TrimEnd(_)
TrimEnd(s) ==
    IF s # "" /\ SubSeq(s, Len(s), Len(s)) \in WhiteSpace
    THEN TrimEnd(SubSeq(s, 1, Len(s) - 1))
    ELSE s

LowerHex ==
    <<"0", "1", "2", "3", "4", "5", "6", "7", "8", "9", "a", "b", "c", "d", "e", "f">>
UpperHex ==
    <<"0", "1", "2", "3", "4", "5", "6", "7", "8", "9", "A", "B", "C", "D", "E", "F">>

IsRadixDigit(c, radix) ==
    \E d \in 0..(radix - 1) : c \in {LowerHex[d + 1], UpperHex[d + 1]}
RadixDigitValue(c) ==
    CHOOSE d \in 0..15 : c \in {LowerHex[d + 1], UpperHex[d + 1]}

RECURSIVE AllRadixDigits(_, _)
AllRadixDigits(s, radix) ==
    s = "" \/ (IsRadixDigit(Head(s), radix) /\ AllRadixDigits(Tail(s), radix))

RECURSIVE RadixValue(_, _, _)
RadixValue(s, radix, acc) ==
    IF s = "" THEN acc
    ELSE RadixValue(Tail(s), radix, radix * acc + RadixDigitValue(Head(s)))

\* the radix a 0x, 0o or 0b prefix announces, 0 when s has none
RadixOf(s) ==
    IF Len(s) < 3 THEN 0
    ELSE LET prefix == SubSeq(s, 1, 2)
         IN IF prefix \in {"0x", "0X"} THEN 16
            ELSE IF prefix \in {"0o", "0O"} THEN 8
            ELSE IF prefix \in {"0b", "0B"} THEN 2
            ELSE 0

RECURSIVE Pow10(_)
Pow10(k) == IF k = 0 THEN 1 ELSE 10 * Pow10(k - 1)

\* the number sign * mantissa * 10^scale; partial: no value when that is not
\* an integer
Scaled(sign, mantissa, scale) ==
    IF mantissa = 0 THEN Signed(sign, 0)
    ELSE IF scale >= 0 THEN Signed(sign, mantissa * Pow10(scale))
    ELSE CASE mantissa % Pow10(-scale) = 0 ->
                 Signed(sign, mantissa \div Pow10(-scale))

\* the digits of an exponent: an optional sign, then at least one digit
IsExponent(e) ==
    /\ e # ""
    /\ IF Head(e) \in {"+", "-"} THEN Tail(e) # "" /\ AllDigits(Tail(e))
       ELSE AllDigits(e)
ExponentValue(e) ==
    IF Head(e) = "-" THEN -DigitsValue(Tail(e), 0)
    ELSE IF Head(e) = "+" THEN DigitsValue(Tail(e), 0)
    ELSE DigitsValue(e, 0)

\* the decimal literal with these digits, fracLen of them after the point,
\* followed by tail: nothing, or an exponent
DecimalExponent(sign, digits, fracLen, tail) ==
    IF digits = "" THEN NaN
    ELSE IF tail = "" THEN Scaled(sign, DigitsValue(digits, 0), -fracLen)
    ELSE IF Head(tail) \in {"e", "E"} /\ IsExponent(Tail(tail))
    THEN Scaled(sign, DigitsValue(digits, 0), ExponentValue(Tail(tail)) - fracLen)
    ELSE NaN

\* the decimal literal with these whole digits, followed by tail: an
\* optional point and fraction digits, then the rest
DecimalFraction(sign, whole, tail) ==
    IF tail # "" /\ Head(tail) = "."
    THEN DecimalExponent(sign, whole \o DigitPrefix(Tail(tail)),
                         Len(DigitPrefix(Tail(tail))),
                         Drop(tail, 1 + Len(DigitPrefix(Tail(tail)))))
    ELSE DecimalExponent(sign, whole, 0, tail)

\* an unsigned decimal literal: digits, an optional fraction, an optional
\* exponent; anything else is NaN
DecimalLiteral(sign, r) ==
    DecimalFraction(sign, DigitPrefix(r), Drop(r, Len(DigitPrefix(r))))

\* an optionally signed Infinity or decimal literal
SignedLiteral(str) ==
    IF Head(str) = "-"
    THEN (IF Tail(str) = "Infinity" THEN SignedInfinity(-1)
          ELSE DecimalLiteral(-1, Tail(str)))
    ELSE IF Head(str) = "+"
    THEN (IF Tail(str) = "Infinity" THEN Infinity ELSE DecimalLiteral(1, Tail(str)))
    ELSE IF str = "Infinity" THEN Infinity
    ELSE DecimalLiteral(1, str)

\* a string without surrounding white space as a number: "" is 0; then an
\* unsigned literal in radix 16, 8 or 2, or a signed literal
TrimmedToNumber(str) ==
    IF str = "" THEN Num(0)
    ELSE IF RadixOf(str) # 0 /\ AllRadixDigits(Drop(str, 2), RadixOf(str))
    THEN Num(RadixValue(Drop(str, 2), RadixOf(str), 0))
    ELSE SignedLiteral(str)

\* Number(s): white space is stripped first; partial: no value for a string
\* with a character outside the alphabet
StringToNumber(s) == CASE InAlphabet(s) -> TrimmedToNumber(TrimEnd(TrimStart(s)))

\* the number of a primitive value
ToNumber(p) ==
    CASE p.t = "number" -> p
      [] p.t = "boolean" -> IF p.b THEN Num(1) ELSE Num(0)
      [] p.t = "null" -> Num(0)
      [] p.t = "undefined" -> NaN
      [] p.t = "string" -> StringToNumber(p.s)

\* l === r: no coercion, NaN differs from itself, the two zeros are equal,
\* objects compare by identity
StrictEquals(l, r) ==
    IF IsNaN(l) \/ IsNaN(r) THEN FALSE
    ELSE IF IsZero(l) /\ IsZero(r) THEN TRUE
    ELSE l = r

CodeUnitRank(c) == CHOOSE i \in 1..Len(CodeUnitOrder) : CodeUnitOrder[i] = c

\* a < b on strings: by code unit, a proper prefix first; partial: a
\* character outside the alphabet has no rank
RECURSIVE StringLess(_, _)
StringLess(a, b) ==
    IF b = "" THEN FALSE
    ELSE IF a = "" THEN TRUE
    ELSE IF CodeUnitRank(Head(a)) = CodeUnitRank(Head(b))
    THEN StringLess(Tail(a), Tail(b))
    ELSE CodeUnitRank(Head(a)) < CodeUnitRank(Head(b))

\* pl < pr on primitive values: two strings compare as strings, any other
\* pair as numbers
Less(pl, pr) ==
    IF pl.t = "string" /\ pr.t = "string" THEN StringLess(pl.s, pr.s)
    ELSE NumLess(ToNumber(pl), ToNumber(pr))

\* pl <= pr on primitive values
LessOrEqual(pl, pr) ==
    IF pl.t = "string" /\ pr.t = "string" THEN ~StringLess(pr.s, pl.s)
    ELSE NumLessOrEqual(ToNumber(pl), ToNumber(pr))

(***************************************************************************)
(* Property lookup of the host language: own properties, then the          *)
(* prototype chain.  The prototypes are those of an ECMAScript 2024 host.  *)
(***************************************************************************)
ObjectPrototypeNames ==
    {"constructor", "__defineGetter__", "__defineSetter__", "hasOwnProperty",
     "__lookupGetter__", "__lookupSetter__", "isPrototypeOf",
     "propertyIsEnumerable", "toString", "valueOf", "__proto__",
     "toLocaleString"}

\* what a plain object inherits under each name of Object.prototype; the
\* accessor __proto__ yields the prototype of the object it is read from
ObjectPrototype ==
    [k \in ObjectPrototypeNames |->
        IF k = "constructor" THEN Fn("Object")
        ELSE IF k = "__proto__" THEN PrototypeObject("object")
        ELSE Fn("Object.prototype." \o k)]

\* name in o, for a plain object o: an own or an inherited property
HasProperty(o, k) == k \in Keys(o) \/ k \in Keys(ObjectPrototype)

\* o[name], for a plain object o: own, else inherited, else undefined
Get(o, k) ==
    IF k \in Keys(o) THEN o[k]
    ELSE IF k \in Keys(ObjectPrototype) THEN ObjectPrototype[k]
    ELSE Undefined

\* a canonical array index below the length of s
IsIndexOf(k, s) ==
    /\ k # ""
    /\ AllDigits(k)
    /\ NatToString(DigitsValue(k, 0)) = k
    /\ DigitsValue(k, 0) < Len(s)

ConstructorName(t) ==
    CASE t = "object" -> "Object"
      [] t = "string" -> "String"
      [] t = "number" -> "Number"
      [] t = "boolean" -> "Boolean"
      [] t = "function" -> "Function"
Constructors == {"Object", "String", "Number", "Boolean", "Function"}
\* the type whose prototype a constructor holds
ConstructedType(c) ==
    CHOOSE t \in {"object", "string", "number", "boolean", "function"} :
        ConstructorName(t) = c

StringPrototypeNames ==
    {"length", "constructor", "anchor", "at", "big", "blink", "bold", "charAt",
     "charCodeAt", "codePointAt", "concat", "endsWith", "fontcolor", "fontsize",
     "fixed", "includes", "indexOf", "isWellFormed", "italics", "lastIndexOf",
     "link", "localeCompare", "match", "matchAll", "normalize", "padEnd",
     "padStart", "repeat", "replace", "replaceAll", "search", "slice", "small",
     "split", "strike", "sub", "substr", "substring", "sup", "startsWith",
     "toString", "toWellFormed", "trim", "trimStart", "trimLeft", "trimEnd",
     "trimRight", "toLocaleLowerCase", "toLocaleUpperCase", "toLowerCase",
     "toUpperCase", "valueOf"}
NumberPrototypeNames ==
    {"constructor", "toExponential", "toFixed", "toPrecision", "toString",
     "valueOf", "toLocaleString"}
BooleanPrototypeNames == {"constructor", "toString", "valueOf"}
FunctionPrototypeNames ==
    {"length", "name", "constructor", "apply", "bind", "call", "toString"}

PrototypeNames(t) ==
    CASE t = "string" -> StringPrototypeNames
      [] t = "number" -> NumberPrototypeNames
      [] t = "boolean" -> BooleanPrototypeNames
      [] t = "function" -> FunctionPrototypeNames

\* the data properties of the prototype of the strings, the numbers, the
\* booleans or the functions
PrimitivePrototype(t) ==
    [k \in PrototypeNames(t) |->
        CASE k = "constructor" -> Fn(ConstructorName(t))
          [] k = "length" -> Num(0)
          [] k = "name" -> Str("")
          [] k = "trimLeft" -> Fn("String.prototype.trimStart")
          [] k = "trimRight" -> Fn("String.prototype.trimEnd")
          [] OTHER -> Fn(ConstructorName(t) \o ".prototype." \o k)]

\* the functions the prototypes hold
Natives ==
    {ObjectPrototype[k].f : k \in ObjectPrototypeNames \ {"constructor", "__proto__"}}
    \cup UNION {{PrimitivePrototype(t)[k].f :
                    k \in PrototypeNames(t) \ {"constructor", "length", "name"}} :
                t \in {"string", "number", "boolean", "function"}}

\* f.length, the number of declared parameters; partial: defined for the
\* host functions of the model, the constructors and the natives above
FunctionLength(f) ==
    CASE f \in {"sum", "second"} -> 2
      [] f \in {"count", "boom", "reject"} -> 0
      [] f \in Constructors -> 1
      [] f \in Natives ->
            LET m == LastSegment(f, "")
            IN IF f = "Number.prototype.toString" THEN 1
               ELSE IF m \in {"toString", "valueOf", "toLocaleString", "trim",
                              "trimStart", "trimEnd", "toLowerCase", "toUpperCase",
                              "toLocaleLowerCase", "toLocaleUpperCase", "normalize",
                              "isWellFormed", "toWellFormed", "big", "blink",
                              "bold", "fixed", "italics", "small", "strike", "sub",
                              "sup"}
               THEN 0
               ELSE IF m \in {"replace", "replaceAll", "slice", "split", "substr",
                              "substring", "__defineGetter__", "__defineSetter__",
                              "apply"}
               THEN 2
               ELSE 1

\* the type whose prototype a value inherits from directly; Object.prototype
\* inherits from none
ProtoKind(v) ==
    CASE v.t \in {"string", "number", "boolean"} -> v.t
      [] v.t = "function" ->
            IF v.f = "Function.prototype" THEN "object" ELSE "function"
      [] IsWrapper(v) -> v.prim.t
      [] IsPrototypeObject(v) ->
            IF v.prototypeOf = "object" THEN "none" ELSE "object"
      [] v.t = "object" /\ ~IsWrapper(v) /\ ~IsPrototypeObject(v) -> "object"

\* the string a value holds, when it is a string or the wrapper of one
HoldsString(v) == v.t = "string" \/ (IsWrapper(v) /\ v.prim.t = "string")
HeldString(v) == IF v.t = "string" THEN v.s ELSE v.prim.s

\* the value has a data property k of its own
HasOwn(v, k) ==
    CASE HoldsString(v) -> k = "length" \/ IsIndexOf(k, HeldString(v))
      [] v.t \in {"number", "boolean"} -> FALSE
      [] v.t = "function" ->
            IF v.f = "Function.prototype" THEN k \in FunctionPrototypeNames
            ELSE k \in {"length", "name"}
                 \/ (k = "prototype" /\ v.f \in Constructors)
      [] IsPrototypeObject(v) ->
            IF v.prototypeOf = "object"
            THEN k \in ObjectPrototypeNames \ {"__proto__"}
            ELSE k \in PrototypeNames(v.prototypeOf)
      [] v.t = "object" /\ ~IsPrototypeObject(v) /\ ~HoldsString(v) ->
            k \in Keys(v.props)

\* the value of the own data property k
OwnValue(v, k) ==
    CASE HoldsString(v) ->
            IF k = "length" THEN Num(Len(HeldString(v)))
            ELSE LET i == DigitsValue(k, 0)
                 IN Str(SubSeq(HeldString(v), i + 1, i + 1))
      [] v.t = "function" ->
            IF v.f = "Function.prototype" THEN PrimitivePrototype("function")[k]
            ELSE IF k = "length" THEN Num(FunctionLength(v.f))
            ELSE IF k = "name" THEN Str(FunctionName(v.f))
            ELSE PrototypeObject(ConstructedType(v.f))
      [] IsPrototypeObject(v) ->
            IF v.prototypeOf = "object" THEN ObjectPrototype[k]
            ELSE PrimitivePrototype(v.prototypeOf)[k]
      [] v.t = "object" /\ ~IsPrototypeObject(v) /\ ~HoldsString(v) -> v.props[k]

\* reading the accessors arguments and caller of a function throws
GetThrows(object, k) == object.t = "function" /\ k \in {"arguments", "caller"}

\* (object as any)[property] for a value that is neither null nor undefined:
\* own, else inherited, else undefined; partial: the properties of a
\* constructor other than length, name and prototype have no value here
GetValue(object, k) ==
    LET kind == ProtoKind(object)
    IN IF HasOwn(object, k) THEN OwnValue(object, k)
       ELSE IF k = "__proto__"
       THEN (IF kind = "none" THEN Null ELSE PrototypeObject(kind))
       ELSE IF kind \notin {"none", "object"} /\ k \in PrototypeNames(kind)
       THEN PrimitivePrototype(kind)[k]
       ELSE IF kind # "none" /\ k \in ObjectPrototypeNames THEN ObjectPrototype[k]
       ELSE CASE ~GetThrows(object, k)
                 /\ ~(object.t = "function" /\ object.f \in Constructors) ->
                    Undefined

(***************************************************************************)
(* Errors and the outcome of evaluating a node.  An outcome carries the    *)
(* log of the host functions invoked so far, in order.  A thrown outcome   *)
(* also remembers the message the error was first raised with and the      *)
(* number of evaluateNode frames that were open when it was raised.        *)
(***************************************************************************)
ExpressionError(message) == [cls |-> "ExpressionError", message |-> message]
Error(message) == [cls |-> "Error", message |-> message]
TypeError(message) == [cls |-> "TypeError", message |-> message]

Return(value, log) == [st |-> "return", value |-> value, log |-> log]
Throw(error, log, depth) ==
    [st |-> "throw", error |-> error, log |-> log,
     raw |-> error.message, at |-> depth]

\* (object as any)[property], which completes or throws, for a key
getProperty(object, k, log, depth) ==
    IF GetThrows(object, k)
    THEN Throw(TypeError("'caller', 'callee', and 'arguments' properties may not "
                         \o "be accessed on strict mode functions or the "
                         \o "arguments objects for calls to them"),
               log, depth)
    ELSE Return(GetValue(object, k), log)

\* object[property] once the property was converted to a key
propertyOf(object, key, depth) ==
    IF key.st = "throw" THEN key
    ELSE getProperty(object, key.value.s, key.log, depth)

(***************************************************************************)
(* The conversion of a value to a primitive.  That of a plain object tries *)
(* the object's toString and valueOf, own or inherited, in the order the   *)
(* hint gives, and takes the first result that is a primitive; a host      *)
(* function held in an own property is called, so the call is logged and   *)
(* may throw.                                                              *)
(***************************************************************************)
\* the methods tried, in order
MethodNames(hint) ==
    IF hint = "string" THEN <<"toString", "valueOf">> ELSE <<"valueOf", "toString">>

\* method.call(v): the outcome of the function f held as a conversion
\* method, called with the receiver v and no argument.  A host function is
\* logged, ignores its receiver and finds every parameter undefined;
\* valueOf of Object.prototype returns the receiver, toString of
\* Object.prototype its tag.  Partial: the other natives are left out
Method(f, v, log, depth) ==
    CASE f = "sum" -> Return(NaN, Append(log, [f |-> f, args |-> <<>>]))
      [] f = "count" -> Return(Num(1), Append(log, [f |-> f, args |-> <<>>]))
      [] f = "second" -> Return(Undefined, Append(log, [f |-> f, args |-> <<>>]))
      [] f = "boom" ->
            Throw(Error("boom"), Append(log, [f |-> f, args |-> <<>>]), depth)
      [] f = "reject" ->
            Throw(ExpressionError("rejected"),
                  Append(log, [f |-> f, args |-> <<>>]), depth)
      [] f = "Object.prototype.valueOf" -> Return(v, log)
      [] f = "Object.prototype.toString" -> Return(Str("[object Object]"), log)

\* the conversion of the plain object v by the methods names, in order: a
\* method that is no function is skipped, a method that returns an object
\* is passed over (so is the inherited valueOf, which returns v itself),
\* the inherited toString returns "[object Object]"; with no method left
\* the conversion throws
RECURSIVE OrdinaryToPrimitive(_, _, _, _)
OrdinaryToPrimitive(v, names, log, depth) ==
    IF names = <<>>
    THEN Throw(TypeError("Cannot convert object to primitive value"), log, depth)
    ELSE IF Head(names) \notin Keys(v.props)
    THEN (IF Head(names) = "toString" THEN Return(Str("[object Object]"), log)
          ELSE OrdinaryToPrimitive(v, Tail(names), log, depth))
    ELSE IF v.props[Head(names)].t # "function"
    THEN OrdinaryToPrimitive(v, Tail(names), log, depth)
    ELSE LET result == Method(v.props[Head(names)].f, v, log, depth)
         IN IF result.st = "throw" \/ result.value.t \notin {"object", "function"}
            THEN result
            ELSE OrdinaryToPrimitive(v, Tail(names), result.log, depth)

\* the primitive value a prototype object holds
PrototypeValue(t) ==
    CASE t = "number" -> Num(0)
      [] t = "string" -> Str("")
      [] t = "boolean" -> Bool(FALSE)
      [] t = "object" -> Str("[object Object]")

\* what toString (hint string) or valueOf (any other hint) makes of the
\* primitive an object holds
Preferred(p, hint) == IF hint = "string" THEN Str(PrimitiveToString(p)) ELSE p

\* the primitive an operand is converted to first
ToPrimitive(v, hint, log, depth) ==
    CASE v.t \notin {"object", "function"} -> Return(v, log)
      [] v.t = "function" -> Return(Str(FunctionSource(v.f)), log)
      [] IsWrapper(v) -> Return(Preferred(v.prim, hint), log)
      [] IsPrototypeObject(v) ->
            Return(Preferred(PrototypeValue(v.prototypeOf), hint), log)
      [] v.t = "object" /\ ~IsWrapper(v) /\ ~IsPrototypeObject(v) ->
            OrdinaryToPrimitive(v, MethodNames(hint), log, depth)

\* the conversion of kind "string" (String()), "numeric" (the operand of an
\* arithmetic operator) or, for any other kind, to a primitive with that
\* hint: the primitive first, then its string or number
Converted(kind, p) ==
    IF p.st = "throw" THEN p
    ELSE Return(CASE kind = "string" -> Str(PrimitiveToString(p.value))
                  [] kind = "numeric" -> ToNumber(p.value)
                  [] OTHER -> p.value,
                p.log)
Convert(v, kind, log, depth) ==
    Converted(kind, ToPrimitive(v, IF kind = "numeric" THEN "number" ELSE kind,
                                log, depth))

\* String(v), also the conversion of `${v}` in a template literal and of a
\* computed property to a key
String(v, log, depth) == Convert(v, "string", log, depth)

\* the numeric conversion the arithmetic operators apply to an operand
ToNumeric(v, log, depth) == Convert(v, "numeric", log, depth)

\* the two operands converted, the left one first and the right one also
\* when the left value already decides the result
RightOperand(l, r) ==
    IF r.st = "throw" THEN r
    ELSE [st |-> "return", left |-> l.value, right |-> r.value, log |-> r.log]
LeftOperand(l, right, kind, depth) ==
    IF l.st = "throw" THEN l
    ELSE RightOperand(l, Convert(right, kind, l.log, depth))
Operands(left, right, kind, log, depth) ==
    LeftOperand(Convert(left, kind, log, depth), right, kind, depth)

(***************************************************************************)
(* The functions a function table can hold or inherit: the host functions  *)
(* the model registers, and the natives and constructors of the            *)
(* prototypes.  The evaluator calls them with no receiver.                 *)
(***************************************************************************)
Arg(args, i) == IF i <= Len(args) THEN args[i] ELSE Undefined

\* a + b of the host language, as the body of `sum` computes it
HostAdd(l, r, log, depth) ==
    LET o == Operands(l, r, "default", log, depth)
    IN IF o.st = "throw" THEN o
       ELSE IF o.left.t = "string" \/ o.right.t = "string"
       THEN Return(Str(PrimitiveToString(o.left) \o PrimitiveToString(o.right)),
                   o.log)
       ELSE Return(NumAdd(ToNumber(o.left), ToNumber(o.right)), o.log)

\* the part of a dotted name before its first dot
RECURSIVE FirstSegment(_)
FirstSegment(s) ==
    IF s = "" \/ Head(s) = "." THEN "" ELSE Head(s) \o FirstSegment(Tail(s))

\* the natives that require a receiver of their own type
TypedNatives ==
    {c \o ".prototype." \o m :
        c \in {"Number", "String", "Boolean"}, m \in {"toString", "valueOf"}}
    \cup {"Function.prototype.toString", "Number.prototype.toFixed",
          "Number.prototype.toExponential", "Number.prototype.toPrecision",
          "Number.prototype.toLocaleString"}

\* the natives of Object.prototype that convert their receiver to an object
\* first
ObjectCoercingNatives ==
    {"Object.prototype." \o m :
        m \in {"valueOf", "__defineGetter__", "__defineSetter__",
               "__lookupGetter__", "__lookupSetter__"}}

\* the natives of Object.prototype that convert their argument to a
\* property key, and then their receiver to an object
KeyCoercingNatives ==
    {"Object.prototype.hasOwnProperty", "Object.prototype.propertyIsEnumerable"}

\* the outcome of f(...args), called with no receiver, after the call was
\* logged; an object it creates gets the identity -Len(log).  Partial:
\* defined for the host functions of the model and the natives listed here
Invoke(f, args, log, depth) ==
    CASE f = "sum" -> HostAdd(Arg(args, 1), Arg(args, 2), log, depth)
      [] f = "count" -> Return(Num(1), log)
      [] f = "second" -> Return(Arg(args, 2), log)
      [] f = "boom" -> Throw(Error("boom"), log, depth)
      [] f = "reject" -> Throw(ExpressionError("rejected"), log, depth)
      [] f = "Object" ->
            LET value == Arg(args, 1)
            IN IF value.t \in {"null", "undefined"}
               THEN Return(Obj(-Len(log), EmptyObject), log)
               ELSE IF value.t \in {"object", "function"} THEN Return(value, log)
               ELSE Return(Wrapper(-Len(log), value), log)
      [] f = "Number" ->
            IF Len(args) = 0 THEN Return(Num(0), log)
            ELSE ToNumeric(args[1], log, depth)
      [] f = "String" ->
            IF Len(args) = 0 THEN Return(Str(""), log)
            ELSE String(args[1], log, depth)
      [] f = "Boolean" -> Return(Bool(Truthy(Arg(args, 1))), log)
      [] f = "Function.prototype" -> Return(Undefined, log)
      [] f = "Object.prototype.toString" -> Return(Str("[object Undefined]"), log)
      [] f = "Object.prototype.isPrototypeOf" ->
            IF Arg(args, 1).t \notin {"object", "function"}
            THEN Return(Bool(FALSE), log)
            ELSE Throw(TypeError("Cannot convert undefined or null to object"),
                       log, depth)
      [] f = "Object.prototype.toLocaleString" ->
            Throw(TypeError("Object.prototype.toLocaleString called on "
                            \o "null or undefined"),
                  log, depth)
      [] f \in KeyCoercingNatives ->
            \* the argument is converted to a property key, then the receiver
            \* to an object
            LET key == String(Arg(args, 1), log, depth)
            IN IF key.st = "throw" THEN key
               ELSE Throw(TypeError("Cannot convert undefined or null to object"),
                          key.log, depth)
      [] f \in ObjectCoercingNatives ->
            Throw(TypeError("Cannot convert undefined or null to object"), log, depth)
      [] f \in TypedNatives ->
            Throw(TypeError(f \o " requires that 'this' be a " \o FirstSegment(f)),
                  log, depth)

\* func(...args): the invocation is logged, then completes
Call(func, args, log, depth) ==
    IF func.t # "function"
    THEN Throw(TypeError("func is not a function"), log, depth)
    ELSE Invoke(func.f, args, Append(log, [f |-> func.f, args |-> args]), depth)

(***************************************************************************)
(* The evaluator.  Every evaluation function takes the node, the           *)
(* evaluation state es of the closure (its context and functions objects), *)
(* the log so far and the number of open evaluateNode frames.              *)
(***************************************************************************)
RECURSIVE evaluateNode(_, _, _, _)
RECURSIVE mapArguments(_, _, _, _, _, _)

evaluateLiteral(node, es, log, depth) == Return(node.value, log)

evaluateIdentifier(node, es, log, depth) ==
    IF ~HasProperty(es.context, node.name)
    THEN Throw(ExpressionError("Undefined variable: " \o node.name), log, depth)
    ELSE Return(Get(es.context, node.name), log)

evaluateMemberExpression(node, es, log, depth) ==
    LET object == evaluateNode(node.object, es, log, depth + 1)
    IN IF object.st = "throw" THEN object
       ELSE IF object.value.t \in {"null", "undefined"}
       THEN Throw(ExpressionError("Cannot access property of null or undefined"),
                  object.log, depth)
       ELSE LET property ==
                    IF node.computed
                    THEN evaluateNode(node.property, es, object.log, depth + 1)
                    ELSE Return(Str(node.property.name), object.log)
            IN IF property.st = "throw" THEN property
               ELSE propertyOf(object.value, String(property.value, property.log, depth),
                               depth)

\* node.arguments.map((arg) => evaluateNode(arg)) from argument i on: left to
\* right, stopping at the first argument that throws
mapArguments(arguments, i, es, log, depth, values) ==
    IF i > Len(arguments) THEN [st |-> "return", values |-> values, log |-> log]
    ELSE LET arg == evaluateNode(arguments[i], es, log, depth + 1)
         IN IF arg.st = "throw" THEN arg
            ELSE mapArguments(arguments, i + 1, es, arg.log, depth,
                              Append(values, arg.value))

Reverse(seq) == [i \in 1..Len(seq) |-> seq[Len(seq) + 1 - i]]

\* a variant that evaluates the arguments from the last to the first
evaluateCallExpression_rightToLeft(node, es, log, depth) ==
    LET func == Get(es.functions, node.callee.name)
    IN IF ~Truthy(func)
       THEN Throw(ExpressionError("Undefined function: " \o node.callee.name),
                  log, depth)
       ELSE LET args == mapArguments(Reverse(node.arguments), 1, es, log, depth, <<>>)
            IN IF args.st = "throw" THEN args
               ELSE Call(func, Reverse(args.values), args.log, depth)

evaluateCallExpression(node, es, log, depth) ==
    LET func == Get(es.functions, node.callee.name)
    IN IF ~Truthy(func)
       THEN Throw(ExpressionError("Undefined function: " \o node.callee.name),
                  log, depth)
       ELSE LET args == mapArguments(node.arguments, 1, es, log, depth, <<>>)
            IN IF args.st = "throw" THEN args
               ELSE Call(func, args.values, args.log, depth)

\* the numeric cases, on operands converted to numbers
Arithmetic(operator, o) ==
    IF o.st = "throw" THEN o
    ELSE Return(CASE operator = "-" -> NumSub(o.left, o.right)
                  [] operator = "*" -> NumMul(o.left, o.right)
                  [] operator = "/" -> NumDiv(o.left, o.right)
                  [] operator = "%" -> NumRem(o.left, o.right),
                o.log)

\* the relational cases, on operands converted to primitives
Relational(operator, o) ==
    IF o.st = "throw" THEN o
    ELSE Return(Bool(CASE operator = ">" -> Less(o.right, o.left)
                       [] operator = ">=" -> LessOrEqual(o.right, o.left)
                       [] operator = "<" -> Less(o.left, o.right)
                       [] operator = "<=" -> LessOrEqual(o.left, o.right)),
                o.log)

\* String(left) + String(right), on operands converted to strings
Concatenation(o) ==
    IF o.st = "throw" THEN o ELSE Return(Str(o.left.s \o o.right.s), o.log)

\* case "+": String(left) is computed before String(right)
Plus(left, right, log, depth) ==
    IF left.t = "number" /\ right.t = "number" THEN Return(NumAdd(left, right), log)
    ELSE Concatenation(Operands(left, right, "string", log, depth))

\* case "&&": the left operand when it is falsy, else the right operand
LogicalAnd(left, right) == IF Truthy(left) THEN right ELSE left

\* case "||": the left operand when it is truthy, else the right operand
LogicalOr(left, right) == IF Truthy(left) THEN left ELSE right

\* the switch on node.operator, given the two operand values
applyOperator(operator, left, right, log, depth) ==
    CASE operator = "+" -> Plus(left, right, log, depth)
      [] operator \in {"-", "*", "/", "%"} ->
            Arithmetic(operator, Operands(left, right, "numeric", log, depth))
      [] operator = "===" -> Return(Bool(StrictEquals(left, right)), log)
      [] operator = "!==" -> Return(Bool(~StrictEquals(left, right)), log)
      [] operator \in {">", ">=", "<", "<="} ->
            Relational(operator, Operands(left, right, "number", log, depth))
      [] operator = "&&" -> Return(LogicalAnd(left, right), log)
      [] operator = "||" -> Return(LogicalOr(left, right), log)
      [] OTHER -> Throw(ExpressionError("Unknown operator: " \o operator), log, depth)

\* a variant in which && and || skip the right operand when the left decides
evaluateBinaryExpression_shortCircuit(node, es, log, depth) ==
    LET left == evaluateNode(node.left, es, log, depth + 1)
    IN IF left.st = "throw" THEN left
       ELSE IF \/ (node.operator = "&&" /\ ~Truthy(left.value))
               \/ (node.operator = "||" /\ Truthy(left.value))
       THEN Return(left.value, left.log)
       ELSE LET right == evaluateNode(node.right, es, left.log, depth + 1)
            IN IF right.st = "throw" THEN right
               ELSE applyOperator(node.operator, left.value, right.value,
                                  right.log, depth)

evaluateBinaryExpression(node, es, log, depth) ==
    LET left == evaluateNode(node.left, es, log, depth + 1)
    IN IF left.st = "throw" THEN left
       ELSE LET right == evaluateNode(node.right, es, left.log, depth + 1)
            IN IF right.st = "throw" THEN right
               ELSE applyOperator(node.operator, left.value, right.value,
                                  right.log, depth)

\* throw new ExpressionError(`Cannot apply unary - to non-number: ${argument}`)
\* once the argument was converted to a string
nonNumber(text, depth) ==
    IF text.st = "throw" THEN text
    ELSE Throw(ExpressionError("Cannot apply unary - to non-number: " \o text.value.s),
               text.log, depth)

evaluateUnaryExpression(node, es, log, depth) ==
    LET argument == evaluateNode(node.argument, es, log, depth + 1)
    IN IF argument.st = "throw" THEN argument
       ELSE IF node.prefix
       THEN CASE node.operator = "!" ->
                    Return(Bool(~Truthy(argument.value)), argument.log)
              [] node.operator = "-" ->
                    IF argument.value.t # "number"
                    THEN nonNumber(String(argument.value, argument.log, depth), depth)
                    ELSE Return(Negate(argument.value), argument.log)
              [] OTHER ->
                    Throw(ExpressionError("Unknown operator: " \o node.operator),
                          argument.log, depth)
       ELSE Throw(ExpressionError("Postfix operators are not supported: "
                                  \o node.operator),
                  argument.log, depth)

\* a variant that evaluates both branches and then selects one
evaluateConditionalExpression_eager(node, es, log, depth) ==
    LET test == evaluateNode(node.test, es, log, depth + 1)
    IN IF test.st = "throw" THEN test
       ELSE LET consequent == evaluateNode(node.consequent, es, test.log, depth + 1)
            IN IF consequent.st = "throw" THEN consequent
               ELSE LET alternate ==
                            evaluateNode(node.alternate, es, consequent.log, depth + 1)
                    IN IF alternate.st = "throw" THEN alternate
                       ELSE Return(IF Truthy(test.value) THEN consequent.value
                                   ELSE alternate.value,
                                   alternate.log)

evaluateConditionalExpression(node, es, log, depth) ==
    LET test == evaluateNode(node.test, es, log, depth + 1)
    IN IF test.st = "throw" THEN test
       ELSE IF Truthy(test.value)
       THEN evaluateNode(node.consequent, es, test.log, depth + 1)
       ELSE evaluateNode(node.alternate, es, test.log, depth + 1)

\* a variant that wraps whatever it catches
rethrow_anyError(thrown) ==
    [thrown EXCEPT
        !.error = ExpressionError("Evaluation error: " \o thrown.error.message)]

\* the catch clause of evaluateNode
rethrow(thrown) ==
    IF thrown.error.cls = "ExpressionError"
    THEN [thrown EXCEPT
             !.error = ExpressionError("Evaluation error: " \o thrown.error.message)]
    ELSE thrown

evaluateNode(node, es, log, depth) ==
    LET result ==
            CASE node.type = "Literal" -> evaluateLiteral(node, es, log, depth)
              [] node.type = "Identifier" -> evaluateIdentifier(node, es, log, depth)
              [] node.type = "MemberExpression" ->
                    evaluateMemberExpression(node, es, log, depth)
              [] node.type = "CallExpression" ->
                    evaluateCallExpression(node, es, log, depth)
              [] node.type = "BinaryExpression" ->
                    evaluateBinaryExpression(node, es, log, depth)
              [] node.type = "UnaryExpression" ->
                    evaluateUnaryExpression(node, es, log, depth)
              [] node.type = "ConditionalExpression" ->
                    evaluateConditionalExpression(node, es, log, depth)
              [] OTHER ->
                    Throw(ExpressionError("Unsupported node type: " \o node.type),
                          log, depth)
    IN IF result.st = "throw" THEN rethrow(result) ELSE result

(***************************************************************************)
(* The interpreter state.  heap is the sequence of the objects allocated   *)
(* so far; an address is an index into it.                                 *)
(***************************************************************************)
\* { context, functions }: the state keeps the two objects it is given
createInterpreterState(context, functions) ==
    [context |-> context, functions |-> functions]

\* a variant that assigns into the table of the state it is given
setFunction_inPlace(h, state, name, fn) ==
    [heap |-> [h EXCEPT ![state.functions] =
                  SpreadMerge(h[state.functions], [k \in {name} |-> fn])],
     state |-> state]

\* a new state sharing the context object, whose function table is a new
\* object: the own entries of the old table, with name set to fn
setFunction(h, state, name, fn) ==
    LET table == SpreadMerge(h[state.functions], [k \in {name} |-> fn])
    IN [heap |-> Append(h, table),
        state |-> [context |-> state.context, functions |-> Len(h) + 1]]

\* the optional third parameter of evaluate
NoContext == [given |-> FALSE]
Given(context) == [given |-> TRUE, context |-> context]

\* a variant that assigns the override into the context of the state
effectiveState_inPlace(h, state, context) ==
    IF context.given
    THEN [heap |-> [h EXCEPT ![state.context] =
                       SpreadMerge(h[state.context], context.context)],
          state |-> state]
    ELSE [heap |-> h, state |-> state]

\* lines 79-85: evaluationState is state itself, or a new state whose context
\* is a new object holding state.context overlaid with the override
effectiveState(h, state, context) ==
    IF context.given
    THEN [heap |-> Append(h, SpreadMerge(h[state.context], context.context)),
          state |-> [context |-> Len(h) + 1, functions |-> state.functions]]
    ELSE [heap |-> h, state |-> state]

\* evaluate(ast, state, context): the outcome and the heap the call leaves
evaluate(h, ast, state, context) ==
    LET eff == effectiveState(h, state, context)
        es == [context |-> eff.heap[eff.state.context],
               functions |-> eff.heap[eff.state.functions]]
    IN [outcome |-> evaluateNode(ast.body, es, <<>>, 1), heap |-> eff.heap]

(***************************************************************************)
(* The expressions, states and overrides the model enumerates.             *)
(***************************************************************************)
MaxNum == 2
MaxDepth == 3
MaxStates == 2
MaxChain == 4

Lit(value) == [type |-> "Literal", value |-> value]
Id(name) == [type |-> "Identifier", name |-> name]
Member(object, property, computed) ==
    [type |-> "MemberExpression", object |-> object, property |-> property,
     computed |-> computed]
CallE(name, arguments) ==
    [type |-> "CallExpression", callee |-> Id(name), arguments |-> arguments]
Bin(operator, left, right) ==
    [type |-> "BinaryExpression", operator |-> operator, left |-> left,
     right |-> right]
Un(operator, prefix, argument) ==
    [type |-> "UnaryExpression", operator |-> operator, prefix |-> prefix,
     argument |-> argument]
Cond(test, consequent, alternate) ==
    [type |-> "ConditionalExpression", test |-> test, consequent |-> consequent,
     alternate |-> alternate]
\* a node kind outside the grammar
Other == [type |-> "ArrayExpression"]
Program(body) == [type |-> "Program", body |-> body]

Context1 ==
    [x |-> Num(1),
     data |-> Obj(1, [value |-> Num(42),
                      inner |-> Obj(2, [value |-> Str("a")]),
                      none |-> Null]),
     odd |-> Obj(3, [toString |-> Num(1)]),
     loud |-> Obj(4, [toString |-> Fn("boom")]),
     nul |-> Null]
Functions1 ==
    [f |-> Fn("count"), g |-> Fn("second"), sum |-> Fn("sum"),
     boom |-> Fn("boom"), reject |-> Fn("reject")]
\* the arguments of createInterpreterState: its defaults, or a populated pair
InitialStates == {<<EmptyObject, EmptyObject>>, <<Context1, Functions1>>}
Override1 == [x |-> Num(2), y |-> Str("a")]
Overrides == {NoContext, Given(Override1)}
\* what the host registers with setFunction: f overwrites, h inserts
Registrations == {<<"f", Fn("boom")>>, <<"h", Fn("count")>>}
\* the same names with either function, for chains of registrations
ChainRegistrations ==
    {<<name, fn>> : name \in {"f", "h"}, fn \in {Fn("boom"), Fn("count")}}

LiteralValues ==
    {Num(n) : n \in 0..MaxNum} \cup {Str(""), Str("a"), Bool(TRUE), Bool(FALSE), Null}
Literals == {Lit(v) : v \in LiteralValues}

\* operands that show whether and when they were evaluated: a host call is
\* logged, an undefined variable and a throwing call abort
Probes ==
    {Lit(Bool(TRUE)), Lit(Bool(FALSE)), Id("z"), Id("data"), CallE("f", <<>>),
     CallE("h", <<>>), CallE("boom", <<>>)}
ArgProbes ==
    {Lit(Num(1)), Lit(Str("a")), Id("z"), CallE("f", <<>>), CallE("boom", <<>>),
     Member(Id("nul"), Id("value"), FALSE)}
Callees ==
    {"f", "g", "sum", "boom", "h", "x", "toString", "valueOf", "constructor",
     "hasOwnProperty"}
ArgLists ==
    {<<>>} \cup {<<a>> : a \in ArgProbes}
    \cup {<<a, b>> : a, b \in ArgProbes \ {Lit(Str("a")), CallE("boom", <<>>)}}
    \cup {<<Lit(Num(1)), Lit(Str("a"))>>, <<CallE("f", <<>>), Lit(Str("a"))>>,
          <<CallE("boom", <<>>), CallE("f", <<>>)>>,
          <<CallE("f", <<>>), CallE("boom", <<>>)>>}

BinaryLiterals ==
    {Bin(op, l, r) : op \in {"+", "&&", "||"}, l \in Literals, r \in Literals}
BinaryOthers ==
    {Bin(op, l, r) : op \in {"-", "*", "/", "%", "===", "!==", ">", ">=", "<",
                             "<=", "^"},
                     l \in {Lit(Num(MaxNum)), Lit(Str("a")), Lit(Null), Id("data")},
                     r \in {Lit(Num(MaxNum)), Lit(Str("a")), Lit(Null), Id("data")}}
BinaryProbes ==
    {Bin(op, l, r) : op \in {"+", "&&", "||"}, l \in Probes, r \in Probes}
Conditionals ==
    {Cond(t, c, a) : t \in {Lit(Bool(TRUE)), Lit(Bool(FALSE)), Id("x"), Id("z"),
                            CallE("f", <<>>)},
                     c \in {Lit(Num(1)), Id("z"), CallE("f", <<>>), CallE("boom", <<>>)},
                     a \in {Lit(Num(0)), Id("z"), CallE("h", <<>>), CallE("boom", <<>>)}}
Calls == {CallE(c, args) : c \in Callees, args \in ArgLists}
Members ==
    {Member(o, p, FALSE) :
        o \in {Id("data"), Id("nul"), Id("x"), Id("y"), Id("z"), Lit(Str("a")),
               Member(Id("data"), Id("inner"), FALSE),
               Member(Id("data"), Id("missing"), FALSE),
               Member(Id("data"), Id("none"), FALSE)},
        p \in {Id("value"), Id("missing"), Id("toString"), Id("constructor")}}
    \cup
    {Member(o, p, TRUE) :
        o \in {Id("data"), Id("nul"), Id("x"), Id("y"), Id("z"), Lit(Str("a")),
               Member(Id("data"), Id("missing"), FALSE)},
        p \in {Lit(Str("value")), Lit(Str("missing")), Lit(Num(0)), Id("z"),
               CallE("f", <<>>), CallE("boom", <<>>)}}
Unaries ==
    {Un(op, prefix, a) : op \in {"!", "-", "~"}, prefix \in BOOLEAN,
                         a \in {Lit(Num(1)), Lit(Str("a")), Lit(Null), Id("z")}}

\* the nodes an error is first raised in
Raisers ==
    {Id("z"), CallE("nofn", <<>>), CallE("boom", <<>>), CallE("reject", <<>>),
     CallE("valueOf", <<>>), Member(Id("nul"), Id("value"), FALSE),
     Un("-", TRUE, Lit(Str("a"))), Un("!", FALSE, Lit(Num(1))),
     Bin("^", Lit(Num(1)), Lit(Num(1))), Other}

\* core inside k enclosing nodes, one of each kind in turn
RECURSIVE Nest(_, _)
Nest(k, core) ==
    IF k = 0 THEN core
    ELSE LET inner == Nest(k - 1, core)
         IN CASE k % 5 = 1 -> Un("!", TRUE, inner)
              [] k % 5 = 2 -> Bin("+", Lit(Num(1)), inner)
              [] k % 5 = 3 -> CallE("f", <<Lit(Num(1)), inner>>)
              [] k % 5 = 4 -> Cond(Lit(Bool(TRUE)), inner, Lit(Num(0)))
              [] OTHER -> Member(inner, Id("value"), FALSE)
Nested == {Nest(k, core) : k \in 0..MaxDepth, core \in Raisers}

\* operators on undefined, on an object whose toString entry is no function
\* and on one whose toString entry is a host function that throws
Convertibles ==
    {Id("odd"), Id("loud"), Member(Id("data"), Id("missing"), FALSE)}
PlusOthers ==
    {Bin("+", l, r) : l \in Convertibles \cup {Lit(Str("a"))},
                      r \in Convertibles \cup {Lit(Num(1))}}
CoercionOthers ==
    {Bin(op, l, r) : op \in {"-", "<", ">"}, l \in Convertibles, r \in Convertibles}
    \cup {Un("-", TRUE, a) : a \in {Id("odd"), Id("loud"), Id("data")}}
    \cup {Member(Id("data"), a, TRUE) : a \in {Id("odd"), Id("loud"), Id("data")}}
    \cup {CallE(c, <<a>>) : c \in {"hasOwnProperty", "sum", "valueOf"},
                            a \in {Id("odd"), Id("loud"), Id("data")}}

Expressions ==
    Literals \cup PlusOthers \cup CoercionOthers \cup {Id(n) : n \in {"x", "y", "data", "nul", "z", "toString", "constructor"}}
    \cup BinaryLiterals \cup BinaryOthers \cup BinaryProbes \cup Conditionals
    \cup Calls \cup Members \cup Unaries \cup Nested

(***************************************************************************)
(* The host: it holds the states it was returned, registers functions and  *)
(* evaluates expressions.  tables[k] is the content the function table of  *)
(* states[k] had when that state was returned; last is the call the host   *)
(* made last, until it has consumed the result.                            *)
(***************************************************************************)
VARIABLES heap, states, tables, last

vars == <<heap, states, tables, last>>

Idle == [op |-> "idle"]

Init ==
    \E given \in InitialStates :
        /\ heap = <<given[1], given[2]>>
        /\ states = <<createInterpreterState(1, 2)>>
        /\ tables = <<given[2]>>
        /\ last = Idle

\* the host calls setFunction on a state it holds and keeps the result
Register(i, name, fn, limit) ==
    /\ last.op = "idle"
    /\ Len(states) < limit
    /\ LET r == setFunction(heap, states[i], name, fn)
       IN /\ heap' = r.heap
          /\ states' = Append(states, r.state)
          /\ tables' = Append(tables, r.heap[r.state.functions])
          /\ last' = [op |-> "setFunction", state |-> i, name |-> name, fn |-> fn,
                      result |-> Len(states) + 1,
                      before |-> heap[states[i].functions],
                      contextBefore |-> heap[states[i].context]]

SetFunction(i, name, fn) == Register(i, name, fn, MaxStates)

\* the effective context object is garbage once the call has returned
Evaluate(i, ast, context) ==
    /\ last.op = "idle"
    /\ LET r == evaluate(heap, ast, states[i], context)
       IN /\ heap' = SubSeq(r.heap, 1, Len(heap))
          /\ last' = [op |-> "evaluate", state |-> i, ast |-> ast,
                      context |-> context, outcome |-> r.outcome,
                      before |-> heap[states[i].context]]
    /\ UNCHANGED <<states, tables>>

Consume ==
    /\ last.op # "idle"
    /\ last' = Idle
    /\ UNCHANGED <<heap, states, tables>>

Next ==
    \/ \E i \in 1..Len(states), r \in Registrations : SetFunction(i, r[1], r[2])
    \/ \E i \in 1..Len(states), e \in Expressions, c \in Overrides :
          Evaluate(i, Program(e), c)
    \/ Consume

Spec == Init /\ [][Next]_vars

\* the host only registering functions, in chains of up to MaxChain states
NextRegister ==
    \/ \E i \in 1..Len(states), r \in ChainRegistrations :
          Register(i, r[1], r[2], MaxChain)
    \/ Consume

SpecRegister == Init /\ [][NextRegister]_vars

(***************************************************************************)
(* What the properties below read off the last call.                       *)
(***************************************************************************)
Evaluated == last.op = "evaluate"
Body == last.ast.body
Outcome == last.outcome

\* the table and the context the state of the last call had before the call
LastFunctions == tables[last.state]
LastContext ==
    IF last.context.given
    THEN [k \in Keys(last.before) \cup Keys(last.context.context) |->
             IF k \in Keys(last.context.context) THEN last.context.context[k]
             ELSE last.before[k]]
    ELSE last.before
LastEs == [context |-> LastContext, functions |-> LastFunctions]

\* a direct child of the root, evaluated on its own after the log so far
Sub(node, log) == evaluateNode(node, LastEs, log, 2)

Registered(name) == name \in Keys(LastFunctions)

\* the string of a value whose conversion calls nothing and does not throw
StringOf(v) == String(v, <<>>, 1).value.s
\* such a value: any but a plain object with a toString or valueOf entry
ConvertsSilently(v) ==
    \/ v.t # "object" \/ IsWrapper(v) \/ IsPrototypeObject(v)
    \/ Keys(v.props) \cap {"toString", "valueOf"} = {}

RECURSIVE Prefixes(_)
Prefixes(n) == IF n = 0 THEN "" ELSE "Evaluation error: " \o Prefixes(n - 1)

(***************************************************************************)
(* C1: setFunction returns a state whose table maps the name to the        *)
(* function and agrees with the input state's table on every other name,   *)
(* with the same context, whose content is as before; the input state's    *)
(* table is left as it was, and every state obtained so far still has the  *)
(* table it was returned with.                                             *)
(***************************************************************************)
C1_SetFunctionNeverMutates ==
    /\ \A k \in 1..Len(states) : heap[states[k].functions] = tables[k]
    /\ last.op = "setFunction" =>
          LET s1 == states[last.state]
              s2 == states[last.result]
              t1 == heap[s1.functions]
              t2 == heap[s2.functions]
          IN /\ last.name \in Keys(t2) /\ t2[last.name] = last.fn
             /\ Keys(t2) = Keys(last.before) \cup {last.name}
             /\ \A n \in Keys(t2) \ {last.name} : t2[n] = last.before[n]
             /\ s2.context = s1.context
             /\ heap[s1.context] = last.contextBefore
             /\ heap[s2.context] = last.contextBefore
             /\ t1 = last.before
             /\ (last.name \notin Keys(last.before) => last.name \notin Keys(t1))

\* a chain: f is overwritten in a state derived from a derived state, and
\* the first state still has the function it started with
C1_Witness ==
    /\ last.op = "setFunction"
    /\ last.state = 3
    /\ last.name = "f"
    /\ last.fn = Fn("boom")
    /\ "f" \in Keys(tables[1]) /\ tables[1]["f"] = Fn("count")
    /\ "h" \in Keys(last.before)
    /\ heap[states[1].functions] = Functions1

(***************************************************************************)
(* C2: with a context override, identifiers resolve in the override laid   *)
(* over state.context, calls use the state's function table, and the       *)
(* state's context object is left as it was: evaluating on the same state  *)
(* afterwards, with no override, sees none of the override's entries.      *)
(***************************************************************************)
C2_OverrideIsLocal ==
    (Evaluated /\ last.context.given) =>
        LET override == last.context.context
            state == states[last.state]
        IN /\ heap[state.context] = last.before
           /\ heap[state.functions] = LastFunctions
           /\ Body.type = "Identifier" =>
                 /\ Body.name \in Keys(override) =>
                       Outcome = Return(override[Body.name], <<>>)
                 /\ (Body.name \in Keys(last.before) \ Keys(override)) =>
                       Outcome = Return(last.before[Body.name], <<>>)
           /\ (Body.type = "CallExpression" /\ Body.arguments = <<>>
                  /\ Registered(Body.callee.name)) =>
                 Outcome.log = <<[f |-> LastFunctions[Body.callee.name].f,
                                  args |-> <<>>]>>
           /\ \A n \in Keys(override) :
                 LET later == evaluate(heap, Program(Id(n)), state, NoContext).outcome
                 IN IF n \in Keys(last.before)
                    THEN later = Return(last.before[n], <<>>)
                    ELSE /\ later.st = "throw"
                         /\ later.raw = "Undefined variable: " \o n

C2_Witness ==
    /\ Evaluated /\ last.context.given
    /\ Body = Id("x")
    /\ last.before = Context1
    /\ Outcome = Return(Num(2), <<>>)
    /\ evaluate(heap, Program(Id("x")), states[last.state], NoContext).outcome
           = Return(Num(1), <<>>)

(***************************************************************************)
(* C3: && and || do not short-circuit.  When the left operand evaluates    *)
(* without error the right operand is evaluated after it, whatever the     *)
(* left value is: the host calls of the expression are those of the left   *)
(* operand followed by those of the right, a call in the right operand     *)
(* being made exactly once.  When the left operand fails the right one is  *)
(* not evaluated.                                                          *)
(***************************************************************************)
C3_NoShortCircuit ==
    (Evaluated /\ Body.type = "BinaryExpression" /\ Body.operator \in {"&&", "||"}) =>
        LET left == Sub(Body.left, <<>>)
        IN IF left.st = "throw"
           THEN /\ Outcome.st = "throw"
                /\ Outcome.log = left.log
                /\ Outcome.raw = left.raw
           ELSE LET right == Sub(Body.right, left.log)
                IN /\ Outcome.log = right.log
                   /\ (Body.right.type = "CallExpression"
                          /\ Body.right.arguments = <<>>
                          /\ Registered(Body.right.callee.name)) =>
                         Outcome.log =
                             Append(left.log,
                                    [f |-> LastFunctions[Body.right.callee.name].f,
                                     args |-> <<>>])

\* false && f(): the left value decides, and f is still invoked once
C3_Witness ==
    /\ Evaluated
    /\ Body = Bin("&&", Lit(Bool(FALSE)), CallE("f", <<>>))
    /\ Registered("f") /\ LastFunctions["f"] = Fn("count")
    /\ Outcome = Return(Bool(FALSE), <<[f |-> "count", args |-> <<>>]>>)

(***************************************************************************)
(* C4: a conditional evaluates its test and then exactly one branch, the   *)
(* consequent when the test value is truthy and the alternate otherwise;   *)
(* its outcome is that branch's, and nothing of the other branch happens:  *)
(* no host call of it is made and no error of it is raised.                *)
(***************************************************************************)
C4_OneBranch ==
    (Evaluated /\ Body.type = "ConditionalExpression") =>
        LET test == Sub(Body.test, <<>>)
        IN IF test.st = "throw"
           THEN /\ Outcome.st = "throw"
                /\ Outcome.log = test.log
                /\ Outcome.raw = test.raw
           ELSE LET taken == IF Truthy(test.value) THEN Body.consequent
                             ELSE Body.alternate
                    branch == Sub(taken, test.log)
                IN /\ Outcome.st = branch.st
                   /\ Outcome.log = branch.log
                   /\ branch.st = "return" => Outcome.value = branch.value
                   /\ branch.st = "throw" =>
                         /\ Outcome.raw = branch.raw
                         /\ Outcome.error.cls = branch.error.cls

\* false ? boom() : 0 returns 0 and boom is never invoked
C4_Witness ==
    /\ Evaluated
    /\ Body = Cond(Lit(Bool(FALSE)), CallE("boom", <<>>), Lit(Num(0)))
    /\ Registered("boom") /\ LastFunctions["boom"] = Fn("boom")
    /\ Outcome = Return(Num(0), <<>>)

(***************************************************************************)
(* C5: a failed evaluate returns no value.  An ExpressionError first       *)
(* raised with message m under d open evaluateNode frames reaches the      *)
(* caller with m preceded by exactly d "Evaluation error: " prefixes; an   *)
(* error of a host function that is no ExpressionError reaches the caller  *)
(* with its class and message as thrown, at any depth.  A node that raises *)
(* in its own frame inside k enclosing nodes raises under k + 1 frames.    *)
(***************************************************************************)
OwnFrameRaisers ==
    {Id("z"), CallE("nofn", <<>>), CallE("boom", <<>>), CallE("reject", <<>>),
     CallE("valueOf", <<>>), Un("-", TRUE, Lit(Str("a"))),
     Un("!", FALSE, Lit(Num(1))), Bin("^", Lit(Num(1)), Lit(Num(1))), Other}

C5_WrappedOncePerFrame ==
    Evaluated =>
        /\ Outcome.st = "throw" =>
              /\ "value" \notin DOMAIN Outcome
              /\ Outcome.at >= 1
              /\ IF Outcome.error.cls = "ExpressionError"
                 THEN Outcome.error.message = Prefixes(Outcome.at) \o Outcome.raw
                 ELSE Outcome.error.message = Outcome.raw
        /\ \A k \in 0..MaxDepth, core \in OwnFrameRaisers :
              (Body = Nest(k, core) /\ (k < 3 \/ Registered("f"))) =>
                  /\ Outcome.st = "throw"
                  /\ Outcome.at = k + 1
        /\ \A k \in 0..MaxDepth :
              (Body = Nest(k, CallE("boom", <<>>)) /\ Registered("f")
                  /\ Registered("boom") /\ LastFunctions["boom"] = Fn("boom")) =>
                  Outcome.error = Error("boom")
        /\ \A k \in 0..MaxDepth :
              (Body = Nest(k, Id("z")) /\ (k < 3 \/ Registered("f"))) =>
                  Outcome.error =
                      ExpressionError(Prefixes(k + 1) \o "Undefined variable: z")

\* an undefined variable inside three enclosing nodes: four prefixes
C5_Witness ==
    /\ Evaluated
    /\ Body = Nest(3, Id("z"))
    /\ Registered("f")
    /\ Outcome.st = "throw"
    /\ Outcome.error.message =
           "Evaluation error: Evaluation error: Evaluation error: "
           \o "Evaluation error: Undefined variable: z"

(***************************************************************************)
(* C6: a call of a registered function evaluates its arguments from left   *)
(* to right, each once, all of them before the function is invoked; the    *)
(* function is then invoked exactly once with the values in that order and *)
(* the call's value is its result.  When an argument fails, the later      *)
(* arguments are not evaluated and the function is not invoked.  The calls *)
(* logged are those of the arguments and then that of the function; only a *)
(* function that converts an argument holding a function of its own adds   *)
(* the call of that one after it.                                          *)
(***************************************************************************)
RECURSIVE ArgumentsInOrder(_, _, _)
ArgumentsInOrder(arguments, log, values) ==
    IF arguments = <<>> THEN [st |-> "return", values |-> values, log |-> log]
    ELSE LET first == Sub(Head(arguments), log)
         IN IF first.st = "throw" THEN first
            ELSE ArgumentsInOrder(Tail(arguments), first.log,
                                  Append(values, first.value))

C6_ArgumentsThenCall ==
    (Evaluated /\ Body.type = "CallExpression" /\ Registered(Body.callee.name)) =>
        LET impl == LastFunctions[Body.callee.name].f
            args == ArgumentsInOrder(Body.arguments, <<>>, <<>>)
        IN IF args.st = "throw"
           THEN /\ Outcome.st = "throw"
                /\ Outcome.log = args.log
                /\ Outcome.raw = args.raw
           ELSE LET result ==
                        Invoke(impl, args.values,
                               Append(args.log, [f |-> impl, args |-> args.values]), 1)
                    call == [f |-> impl, args |-> args.values]
                IN /\ SubSeq(Outcome.log, 1, Len(args.log) + 1) =
                         Append(args.log, call)
                   /\ (\A i \in 1..Len(args.values) :
                          ConvertsSilently(args.values[i])) =>
                         Outcome.log = Append(args.log, call)
                   /\ Outcome.log = result.log
                   /\ Outcome.st = result.st
                   /\ result.st = "return" => Outcome.value = result.value
                   /\ result.st = "throw" => Outcome.raw = result.raw

\* g(f(), "a"): f is invoked, then g once with <<1, "a">>; g returns "a"
C6_Witness ==
    /\ Evaluated
    /\ Body = CallE("g", <<CallE("f", <<>>), Lit(Str("a"))>>)
    /\ Registered("g") /\ LastFunctions["g"] = Fn("second")
    /\ Registered("f") /\ LastFunctions["f"] = Fn("count")
    /\ Outcome = Return(Str("a"),
                        <<[f |-> "count", args |-> <<>>],
                          [f |-> "second", args |-> <<Num(1), Str("a")>>]>>)

(***************************************************************************)
(* C7 as claimed: member access on an object that evaluates to null or     *)
(* undefined fails with "Cannot access property of null or undefined"      *)
(* before a computed property is evaluated; on a structured value it       *)
(* returns the value stored at the key (the identifier's name, or the      *)
(* computed property's value), and undefined, without an error, for a key  *)
(* the object does not have.                                               *)
(***************************************************************************)
C7_Original ==
    (Evaluated /\ Body.type = "MemberExpression") =>
        LET object == Sub(Body.object, <<>>)
        IN object.st = "return" =>
              IF object.value.t \in {"null", "undefined"}
              THEN /\ Outcome.st = "throw"
                   /\ Outcome.error = ExpressionError(
                          "Evaluation error: Cannot access property of null or undefined")
                   /\ Outcome.log = object.log
              ELSE object.value.t = "object" =>
                      LET property == IF Body.computed THEN Sub(Body.property, object.log)
                                      ELSE Return(Str(Body.property.name), object.log)
                      IN (property.st = "return" /\ ConvertsSilently(property.value)) =>
                            LET key == StringOf(property.value)
                                own == object.value.props
                            IN IF key \in Keys(own)
                               THEN Outcome = Return(own[key], property.log)
                               ELSE Outcome = Return(Undefined, property.log)

(***************************************************************************)
(* C7, where the code agrees with it: the null check and the stored value  *)
(* as claimed, and undefined for a key the object has neither as an own    *)
(* nor as an inherited property.  For a key the object only inherits, line *)
(* 130 returns the inherited value.                                        *)
(***************************************************************************)
C7_AbsentAlsoFromPrototype ==
    (Evaluated /\ Body.type = "MemberExpression") =>
        LET object == Sub(Body.object, <<>>)
        IN object.st = "return" =>
              IF object.value.t \in {"null", "undefined"}
              THEN /\ Outcome.st = "throw"
                   /\ Outcome.error = ExpressionError(
                          "Evaluation error: Cannot access property of null or undefined")
                   /\ Outcome.log = object.log
              ELSE object.value.t = "object" =>
                      LET property == IF Body.computed THEN Sub(Body.property, object.log)
                                      ELSE Return(Str(Body.property.name), object.log)
                      IN (property.st = "return" /\ ConvertsSilently(property.value)) =>
                            LET key == StringOf(property.value)
                                own == object.value.props
                            IN /\ key \in Keys(own) =>
                                     Outcome = Return(own[key], property.log)
                               /\ (key \notin Keys(own)
                                      /\ key \notin Keys(ObjectPrototype)) =>
                                     Outcome = Return(Undefined, property.log)
                               /\ (key \notin Keys(own)
                                      /\ key \in Keys(ObjectPrototype)) =>
                                     Outcome = Return(ObjectPrototype[key],
                                                      property.log)

\* nul[f()]: the access fails and f is not invoked
C7_Witness ==
    /\ Evaluated
    /\ Body = Member(Id("nul"), CallE("f", <<>>), TRUE)
    /\ last.before = Context1 /\ Registered("f")
    /\ Outcome.st = "throw"
    /\ Outcome.log = <<>>
    /\ Outcome.raw = "Cannot access property of null or undefined"

(***************************************************************************)
(* C8 as claimed: l && r is the boolean truthy(l) AND truthy(r), and       *)
(* l || r the boolean truthy(l) OR truthy(r), for all operand values.      *)
(***************************************************************************)
C8_Original ==
    (Evaluated /\ Body.type = "BinaryExpression" /\ Body.operator \in {"&&", "||"}
        /\ Body.left.type = "Literal" /\ Body.right.type = "Literal") =>
        LET l == Truthy(Body.left.value)
            r == Truthy(Body.right.value)
        IN Outcome = Return(Bool(IF Body.operator = "&&" THEN l /\ r ELSE l \/ r),
                            <<>>)

(***************************************************************************)
(* C8, what lines 187 and 189 compute instead: l && r is l itself when l   *)
(* is falsy and r itself otherwise; l || r is l itself when l is truthy    *)
(* and r itself otherwise.  The result is one of the operand values,       *)
(* uncoerced; only its truthiness is truthy(l) AND truthy(r), respectively *)
(* truthy(l) OR truthy(r), and it is a boolean when both operands are.     *)
(***************************************************************************)
C8_OperandSelected ==
    (Evaluated /\ Body.type = "BinaryExpression" /\ Body.operator \in {"&&", "||"}) =>
        LET left == Sub(Body.left, <<>>)
            right == Sub(Body.right, left.log)
        IN (left.st = "return" /\ right.st = "return") =>
              LET l == left.value
                  r == right.value
              IN /\ Outcome.st = "return"
                 /\ Body.operator = "&&" =>
                       /\ Outcome.value = (IF Truthy(l) THEN r ELSE l)
                       /\ Truthy(Outcome.value) = (Truthy(l) /\ Truthy(r))
                 /\ Body.operator = "||" =>
                       /\ Outcome.value = (IF Truthy(l) THEN l ELSE r)
                       /\ Truthy(Outcome.value) = (Truthy(l) \/ Truthy(r))
                 /\ (l.t = "boolean" /\ r.t = "boolean") =>
                       Outcome.value.t = "boolean"

\* 1 && "a" is "a", not true
C8_Witness ==
    /\ Evaluated
    /\ Body = Bin("&&", Lit(Num(1)), Lit(Str("a")))
    /\ Outcome = Return(Str("a"), <<>>)

(***************************************************************************)
(* C9 as claimed: + returns the numeric sum when both operand values are   *)
(* numbers and otherwise the string representation of the left value       *)
(* followed by that of the right value; it never raises.  1 + 2 is 3,      *)
(* "a" + 1 is "a1" and 1 + "a" is "1a".                                    *)
(***************************************************************************)
C9_Original ==
    (Evaluated /\ Body.type = "BinaryExpression" /\ Body.operator = "+") =>
        LET left == Sub(Body.left, <<>>)
            right == Sub(Body.right, left.log)
        IN /\ (left.st = "return" /\ right.st = "return") =>
                 LET l == left.value
                     r == right.value
                 IN /\ Outcome.st = "return"
                    /\ (IsInt(l) /\ IsInt(r)) => Outcome.value = Num(l.n + r.n)
                    /\ (l.t # "number" \/ r.t # "number") =>
                          Outcome.value = Str(StringOf(l) \o StringOf(r))
           /\ Body = Bin("+", Lit(Num(1)), Lit(Num(2))) => Outcome.value = Num(3)
           /\ Body = Bin("+", Lit(Str("a")), Lit(Num(1))) => Outcome.value = Str("a1")
           /\ Body = Bin("+", Lit(Num(1)), Lit(Str("a"))) => Outcome.value = Str("1a")

(***************************************************************************)
(* C9, where the code agrees with it: the sum of two numbers, and the      *)
(* concatenation of the two string representations when the conversion of  *)
(* both operands calls no function of theirs.  Line 165 throws a TypeError *)
(* for an operand whose toString entry is no function, and what a toString *)
(* entry that is a host function throws, the left operand first; either    *)
(* error reaches the caller as thrown.                                     *)
(***************************************************************************)
C9_PlusAddsOrConcatenates ==
    (Evaluated /\ Body.type = "BinaryExpression" /\ Body.operator = "+") =>
        LET left == Sub(Body.left, <<>>)
            right == Sub(Body.right, left.log)
        IN /\ (left.st = "return" /\ right.st = "return") =>
                 LET l == left.value
                     r == right.value
                 IN /\ (IsInt(l) /\ IsInt(r)) => Outcome = Return(Num(l.n + r.n), right.log)
                    /\ ((l.t # "number" \/ r.t # "number")
                           /\ ConvertsSilently(l) /\ ConvertsSilently(r)) =>
                          Outcome = Return(Str(StringOf(l) \o StringOf(r)), right.log)
           /\ Body = Bin("+", Lit(Num(1)), Lit(Num(2))) => Outcome.value = Num(3)
           /\ Body = Bin("+", Lit(Str("a")), Lit(Num(1))) => Outcome.value = Str("a1")
           /\ Body = Bin("+", Lit(Num(1)), Lit(Str("a"))) => Outcome.value = Str("1a")
           /\ Body = Bin("+", Lit(Bool(TRUE)), Lit(Num(1))) =>
                 Outcome.value = Str("true1")
           /\ Body = Bin("+", Lit(Null), Lit(Null)) => Outcome.value = Str("nullnull")
           /\ (Body.left = Member(Id("data"), Id("missing"), FALSE)
                  /\ Body.right = Lit(Num(1)) /\ last.before = Context1) =>
                 Outcome.value = Str("undefined1")
           /\ (Body = Bin("+", Id("odd"), Id("loud")) /\ last.before = Context1) =>
                 /\ Outcome.st = "throw"
                 /\ Outcome.error =
                        TypeError("Cannot convert object to primitive value")
                 /\ Outcome.log = <<>>
           /\ (Body = Bin("+", Id("loud"), Id("odd")) /\ last.before = Context1) =>
                 /\ Outcome.st = "throw"
                 /\ Outcome.error = Error("boom")
                 /\ Outcome.log = <<[f |-> "boom", args |-> <<>>]>>

\* odd + 1, where odd is { toString: 1 }: the conversion throws
C9_Witness ==
    /\ Evaluated
    /\ Body = Bin("+", Id("odd"), Lit(Num(1)))
    /\ last.before = Context1
    /\ Outcome.st = "throw"
    /\ Outcome.error = TypeError("Cannot convert object to primitive value")

(***************************************************************************)
(* C10 as claimed: a call whose callee name is not an entry of the         *)
(* function table fails with "Undefined function: <name>" without          *)
(* evaluating any argument: no host function is invoked, and the error is  *)
(* that one even when an argument would fail; a name of the context that   *)
(* is not in the table is an undefined function too.                       *)
(***************************************************************************)
C10_Original ==
    (Evaluated /\ Body.type = "CallExpression" /\ ~Registered(Body.callee.name)) =>
        /\ Outcome.st = "throw"
        /\ Outcome.error = ExpressionError(
               "Evaluation error: Undefined function: " \o Body.callee.name)
        /\ Outcome.log = <<>>

(***************************************************************************)
(* C10, where the code agrees with it: a call whose callee name is neither *)
(* an entry of the function table nor a name the table inherits fails with *)
(* "Undefined function: <name>" and evaluates no argument.                 *)
(***************************************************************************)
C10_AbsentAlsoFromPrototype ==
    (Evaluated /\ Body.type = "CallExpression" /\ ~Registered(Body.callee.name)
        /\ Body.callee.name \notin Keys(ObjectPrototype)) =>
        /\ Outcome.st = "throw"
        /\ Outcome.error = ExpressionError(
               "Evaluation error: Undefined function: " \o Body.callee.name)
        /\ Outcome.log = <<>>

\* x(f()): x is a name of the context only, and f is not invoked
C10_Witness ==
    /\ Evaluated
    /\ Body = CallE("x", <<CallE("f", <<>>)>>)
    /\ "x" \in Keys(last.before) /\ Registered("f")
    /\ Outcome.st = "throw"
    /\ Outcome.raw = "Undefined function: x"
    /\ Outcome.log = <<>>
====
